---- MODULE Spec2Model ----
(***************************************************************************)
(* docker-restarter (src/src/main.rs): a reconciliation loop that keeps    *)
(* one log-monitoring task per running watched container, and the          *)
(* per-container monitor that restarts target containers when a pattern    *)
(* shows up in a log line.                                                 *)
(*                                                                         *)
(* Tasks are tokio tasks: a step of the model is what one task does        *)
(* between two await points.  JoinHandle::abort drops the task's future at *)
(* the await it is suspended on.  The Docker daemon is the environment:    *)
(* containers start, stop and write log lines at any time, and every       *)
(* request to the daemon may fail.                                         *)
(***************************************************************************)
EXTENDS Integers, Sequences, FiniteSets, TLC

VARIABLES
    exists,      \* daemon: ids of the containers that exist
    running,     \* daemon: ids of the containers whose status is running
    logs,        \* daemon: per container id, the log lines written so far, with their second
    written,     \* history: the number of log lines written so far
    clock,       \* wall clock, in seconds
    configs,     \* main: Vec<ContainerRestartConfig>
    tasks,       \* main: the keys of HashMap<String, JoinHandle<()>>; the handle of id is mon[id]
    containers,  \* main: HashMap<String, MappedContainer>
    wakeAt,      \* main: the second at which the pending sleep ends
    mon,         \* per container id, the spawned monitor_logs future
    lastTick,    \* history: outcome of the last tick ("none", "ok", "err")
    tickBit      \* history: flips on every tick

vars == <<exists, running, logs, written, clock, configs, tasks, containers, wakeAt, mon,
          lastTick, tickBit>>

----------------------------------------------------------------------------
\* Bounds of the model

\* seconds of wall clock that are modelled
MaxClock == 20
\* log lines the containers write, all together
MaxLog == 2
\* matching lines one monitor task consumes (replays included)
MaxSeen == 2

----------------------------------------------------------------------------
\* Program constants

\* sleep(Duration::from_secs(10)) at the end of a tick
SleepSecs == 10
\* sleep(Duration::from_secs(10)) after a failed listing
BackoffSecs == 10
\* let mut since = now() - 10
Lookback == 10

----------------------------------------------------------------------------
\* Strings are sequences of one-character strings.

Web == <<"w", "e", "b">>
Db == <<"d", "b">>
Pat == <<"O", "O", "M">>

LineOk == <<"o", "k">>
LineOOM == <<"x", "O", "O", "M">>
Lines == {LineOk, LineOOM}

\* Option<T>: None is the empty sequence, Some(x) the sequence of x alone.
None == <<>>
Some(x) == <<x>>

Ids == {"c1", "c2", "c3"}
Anon == "c4"
AllIds == Ids \cup {Anon}

\* The daemon's ContainerSummary of each container: c2 is the container that
\* replaces c1 under the same name, c4 is reported without names.
Summary(id) ==
    CASE id = "c1" -> [id |-> Some("c1"), names |-> Some(<<<<"/">> \o Web>>)]
      [] id = "c2" -> [id |-> Some("c2"), names |-> Some(<<<<"/">> \o Web>>)]
      [] id = "c3" -> [id |-> Some("c3"),
                       names |-> Some(<<<<"/">> \o Db, <<"/">> \o Web \o <<"/">> \o Db>>)]
      [] OTHER     -> [id |-> Some(id), names |-> None]

\* str::trim_start_matches("/")
RECURSIVE TrimStartMatches(_)
TrimStartMatches(s) ==
    IF s # <<>> /\ Head(s) = "/" THEN TrimStartMatches(Tail(s)) ELSE s

\* str::contains(pattern)
StrContains(hay, pat) ==
    \E i \in 0..(Len(hay) - Len(pat)) : SubSeq(hay, i + 1, i + Len(pat)) = pat

\* Vec::contains
VecContains(v, x) == \E i \in DOMAIN v : v[i] = x

\* The orders in which the daemon may list a set of containers.
RECURSIVE Listings(_)
Listings(S) ==
    IF S = {} THEN {<<>>}
    ELSE UNION {{<<Summary(x)>> \o l : l \in Listings(S \ {x})} : x \in S}

\* get_filtered_containers, given the listing get_running_containers returned
RECURSIVE GetFilteredContainers(_, _)
GetFilteredContainers(list, container_names) ==
    IF list = <<>> THEN <<>>
    ELSE LET c == Head(list)
             rest == GetFilteredContainers(Tail(list), container_names)
         IN  IF c.names # None /\ c.id # None
             THEN LET names == c.names[1]
                      id == c.id[1]
                      name == TrimStartMatches(names[1])
                  IN  IF VecContains(container_names, name)
                      THEN <<[id |-> id, name |-> name]>> \o rest
                      ELSE rest
             ELSE rest

----------------------------------------------------------------------------
\* main: configuration

ContainerRestartConfig(w, r, p, s) ==
    [watch |-> w, restart |-> r, pattern |-> p, skip_first |-> s]

\* The configurations the model starts from: web is watched, and web and db
\* are restarted for it.
ConfigChoices ==
    {<<ContainerRestartConfig(Web, <<Web, Db>>, Pat, s)>> : s \in BOOLEAN}

\* configs.iter().map(|c| c.watch.clone()).collect()
ContainersNames(cfgs) == [i \in DOMAIN cfgs |-> cfgs[i].watch]

\* configs.iter().find(|config| config.watch == container.name).unwrap()
FindConfig(cfgs, name) ==
    cfgs[CHOOSE i \in DOMAIN cfgs :
            /\ cfgs[i].watch = name
            /\ \A j \in 1..(i - 1) : cfgs[j].watch # name]

MappedContainer(c, config) ==
    [id |-> c.id, name |-> c.name, restart |-> config.restart,
     pattern |-> config.pattern, skip_first |-> config.skip_first]

\* the and_then closure of main: the filtered containers keyed by id
NewContainers(filtered, cfgs) ==
    [id \in {filtered[i].id : i \in DOMAIN filtered} |->
        LET i == CHOOSE k \in DOMAIN filtered :
                    /\ filtered[k].id = id
                    /\ \A j \in (k + 1)..Len(filtered) : filtered[j].id # id
        IN  MappedContainer(filtered[i], FindConfig(cfgs, filtered[i].name))]

----------------------------------------------------------------------------
\* Monitor tasks

NoContainer == [id |-> "", name |-> <<>>, restart |-> <<>>,
                pattern |-> <<>>, skip_first |-> FALSE]

\* The future of a monitor task:
\*   st          "none" (never spawned), "run", "err" (monitor_logs returned
\*               Err), "aborted"
\*   pc          the await it is suspended on: "start" (not polled yet),
\*               "read" (log_stream.next()), "list" (get_filtered_containers in
\*               restart_containers), "call" (restart_container)
\*   c           its MappedContainer
\*   first_time, since   the locals of monitor_logs
\*   open, pos   log_stream: whether it is held, and the index in the
\*               container's log of the next line it yields
\*   queue       restart_containers: the containers still to restart, the
\*               first being the one whose restart is awaited
\*   issued      history: the restarts sent by the pending restart_containers
\*   snap        history: the running set the pending restart_containers listed
\*   nMatch, nInvoke, sawOther   history: the matching lines consumed, the
\*               calls of restart_containers made, and whether a line that
\*               does not match was consumed
\*   last        history: how the stream the task held before this one ended,
\*               as long as no line of this one is consumed: "err" (a read
\*               error), "end" (the daemon closed it), "none" otherwise
\* No task was ever spawned for the id.
NoTask ==
    [st |-> "none", pc |-> "start", c |-> NoContainer, first_time |-> TRUE,
     since |-> 0, open |-> FALSE, pos |-> 0, queue |-> <<>>, issued |-> <<>>,
     snap |-> {}, nMatch |-> 0, nInvoke |-> 0, sawOther |-> FALSE, last |-> "none"]

\* tokio::spawn(async move { monitor_logs(&docker_clone, &task_container) })
Spawn(container) == [NoTask EXCEPT !.st = "run", !.c = container]

\* Mutant of Abort: the handle is dropped without abort, which detaches the
\* task and leaves it running.
Abort_Detach(m) == m

\* JoinHandle::abort: a task that has not finished is dropped at the await it
\* is suspended on, and its locals and its log stream with it. A finished
\* task is left as it is.
Abort(m) == IF m.st = "run" THEN [NoTask EXCEPT !.st = "aborted"] ELSE m

\* docker.logs(id, since): the lines of the container from second `since` on
OpenStream(id, since) ==
    IF \E i \in DOMAIN logs[id] : logs[id][i].ts >= since
    THEN CHOOSE i \in DOMAIN logs[id] :
            /\ logs[id][i].ts >= since
            /\ \A j \in 1..(i - 1) : logs[id][j].ts < since
    ELSE Len(logs[id]) + 1

\* now()
Now == clock

\* Mutant of ShouldRestart: the first_time test is left out.
ShouldRestart_Always(skip_first, first_time) == TRUE

\* Mutant of ShouldRestart: the skip_first test is left out.
ShouldRestart_IgnoreFlag(skip_first, first_time) == ~first_time

\* Mutant of ShouldRestart: with skip_first no match is ever acted on.
ShouldRestart_Never(skip_first, first_time) == ~skip_first

\* if !skip_first || !first_time
ShouldRestart(skip_first, first_time) == ~skip_first \/ ~first_time

\* Ok(()) from restart_containers: since = now(); break; and the outer loop
\* opens the stream again
Restarted(id, m) ==
    [m EXCEPT !.queue = <<>>, !.issued = <<>>, !.snap = {}, !.since = Now,
              !.pc = "read", !.open = TRUE, !.pos = OpenStream(id, Now)]

\* Err from restart_containers: the ? operator returns it from monitor_logs,
\* and the task ends after logging it
Failed(m) == [NoTask EXCEPT !.st = "err"]

----------------------------------------------------------------------------
\* The state after main has parsed its arguments and connected to the daemon

InitWith(created) ==
    /\ exists = created
    /\ running = {}
    /\ logs = [id \in Ids |-> <<>>]
    /\ written = 0
    /\ clock = 0
    /\ configs \in ConfigChoices
    /\ tasks = {}
    /\ containers = <<>>
    /\ wakeAt = 0
    /\ mon = [id \in Ids |-> NoTask]
    /\ lastTick = "none"
    /\ tickBit = 0

\* The containers of web and of db exist.
Init == InitWith({"c1", "c3"})

\* Only the container of web exists.
InitReplace == InitWith({"c1"})

----------------------------------------------------------------------------
\* The environment: the daemon's containers and the clock

\* names[0] of the container, as the daemon reports it
FirstName(id) == Summary(id).names[1][1]

Watched(id) == VecContains(ContainersNames(configs), TrimStartMatches(FirstName(id)))

\* A container starts.
EnvStart(id) ==
    /\ id \in exists \ running
    /\ running' = running \cup {id}
    /\ UNCHANGED <<exists, logs, written, clock, configs, tasks, containers, wakeAt, mon,
                   lastTick, tickBit>>

\* A container stops.
EnvStop(id) ==
    /\ id \in running
    /\ running' = running \ {id}
    /\ UNCHANGED <<exists, logs, written, clock, configs, tasks, containers, wakeAt, mon,
                   lastTick, tickBit>>

\* A stopped container is removed, its log with it, and a new container is
\* created under its name and started; the daemon keeps names unique among
\* its containers, and never gives the id of a removed container (c1) to a
\* new one.
EnvReplace(old, new) ==
    /\ old \in exists \ running
    /\ new \notin exists
    /\ new # "c1"
    /\ FirstName(new) = FirstName(old)
    /\ exists' = (exists \ {old}) \cup {new}
    /\ running' = running \cup {new}
    /\ logs' = [logs EXCEPT ![old] = <<>>]
    /\ UNCHANGED <<written, clock, configs, tasks, containers, wakeAt, mon,
                   lastTick, tickBit>>


\* A running container writes a log line. Only the logs of watched
\* containers are ever read, so only those are modelled.
EnvLog(id, line) ==
    /\ id \in running
    /\ Watched(id)
    /\ written < MaxLog
    /\ logs' = [logs EXCEPT ![id] = Append(@, [line |-> line, ts |-> clock])]
    /\ written' = written + 1
    /\ UNCHANGED <<exists, running, clock, configs, tasks, containers, wakeAt, mon,
                   lastTick, tickBit>>

\* Time passes. The clock is read at the seconds at which main wakes up: the
\* seconds of one sleep of main pass at once, and main runs as soon as its
\* sleep is over.
Elapse ==
    /\ clock < wakeAt
    /\ clock' = wakeAt
    /\ clock' <= MaxClock
    /\ UNCHANGED <<exists, running, logs, written, configs, tasks, containers, wakeAt, mon,
                   lastTick, tickBit>>

----------------------------------------------------------------------------
\* main: the reconciliation loop

\* Mutant of CancelPass: no task is ever cancelled.
CancelPass_None(old_containers, new_containers, t) == {}

\* Mutant of CancelPass: the resolved containers are compared by name.
CancelPass_ByName(old_containers, new_containers, t) ==
    {id \in DOMAIN old_containers :
        /\ id \in t
        /\ \A n \in DOMAIN new_containers :
              new_containers[n].name # old_containers[id].name}

\* The first loop over containers.keys(): the ids whose task is removed from
\* tasks and aborted
CancelPass(old_containers, new_containers, t) ==
    {id \in DOMAIN old_containers : id \notin DOMAIN new_containers /\ id \in t}

\* The second loop over containers.values(): the ids a task is spawned for
StartPass(new_containers, t) ==
    {id \in DOMAIN new_containers : new_containers[id].id \notin t}

\* Mutant of TickFail: the loop continues without sleeping.
TickFail_NoBackoff ==
    /\ clock >= wakeAt
    /\ wakeAt' = clock
    /\ lastTick' = "err"
    /\ tickBit' = 1 - tickBit
    /\ UNCHANGED <<exists, running, logs, written, clock, configs, tasks, containers, mon>>

\* Mutant of TickFail: the failed listing counts as an empty one, without the
\* cancel pass.
TickFail_Forgets ==
    /\ clock >= wakeAt
    /\ containers' = <<>>
    /\ wakeAt' = clock + BackoffSecs
    /\ lastTick' = "err"
    /\ tickBit' = 1 - tickBit
    /\ UNCHANGED <<exists, running, logs, written, clock, configs, tasks, mon>>

\* Mutant of TickFail: the error ends the loop.
TickFail_Stops ==
    /\ clock >= wakeAt
    /\ wakeAt' = clock + 1000 * BackoffSecs
    /\ lastTick' = "err"
    /\ tickBit' = 1 - tickBit
    /\ UNCHANGED <<exists, running, logs, written, clock, configs, tasks, containers, mon>>

\* A tick whose listing fails: sleep and try again.
TickFail ==
    /\ clock >= wakeAt
    /\ wakeAt' = clock + BackoffSecs
    /\ lastTick' = "err"
    /\ tickBit' = 1 - tickBit
    /\ UNCHANGED <<exists, running, logs, written, clock, configs, tasks, containers, mon>>

\* A tick whose listing succeeds.
TickOk ==
    /\ clock >= wakeAt
    /\ \E list \in Listings(running \cup {Anon}) :
          LET filtered == GetFilteredContainers(list, ContainersNames(configs))
              new_containers == NewContainers(filtered, configs)
              cancelled == CancelPass(containers, new_containers, tasks)
              started == StartPass(new_containers, tasks \ cancelled)
          IN  /\ tasks' = (tasks \ cancelled) \cup started
              /\ containers' = new_containers
              /\ mon' = [id \in Ids |->
                            IF id \in started THEN Spawn(new_containers[id])
                            ELSE IF id \in cancelled THEN Abort(mon[id])
                            ELSE mon[id]]
    /\ wakeAt' = clock + SleepSecs
    /\ lastTick' = "ok"
    /\ tickBit' = 1 - tickBit
    /\ UNCHANGED <<exists, running, logs, written, clock, configs>>

----------------------------------------------------------------------------
\* monitor_logs

frame == <<exists, running, logs, written, clock, configs, tasks, containers, wakeAt,
           lastTick, tickBit>>

\* The task is polled for the first time: first_time, since, and the stream.
MonStart(id) ==
    /\ mon[id].st = "run" /\ mon[id].pc = "start"
    /\ mon' = [mon EXCEPT ![id] =
                  [@ EXCEPT !.first_time = TRUE, !.since = Now - Lookback,
                            !.pc = "read", !.open = TRUE,
                            !.pos = OpenStream(id, Now - Lookback)]]
    /\ UNCHANGED frame

\* log_stream.next() yields Some(Ok(log)).
MonLine(id) ==
    LET m == mon[id] IN
    /\ m.st = "run" /\ m.pc = "read" /\ m.open
    /\ id \in exists
    /\ m.pos <= Len(logs[id])
    /\ LET log_output == logs[id][m.pos].line IN
       IF StrContains(log_output, m.c.pattern)
       THEN /\ m.nMatch < MaxSeen
            /\ IF ShouldRestart(m.c.skip_first, m.first_time)
               THEN \* restart_containers is called, and awaits the listing
                    mon' = [mon EXCEPT ![id] =
                               [m EXCEPT !.pos = m.pos + 1, !.nMatch = m.nMatch + 1,
                                         !.nInvoke = m.nInvoke + 1, !.pc = "list",
                                         !.last = "none"]]
               ELSE mon' = [mon EXCEPT ![id] =
                               [m EXCEPT !.pos = m.pos + 1, !.nMatch = m.nMatch + 1,
                                         !.first_time = FALSE, !.last = "none"]]
       ELSE mon' = [mon EXCEPT ![id] =
                       [m EXCEPT !.pos = m.pos + 1, !.sawOther = TRUE,
                                 !.first_time = FALSE, !.last = "none"]]
    /\ UNCHANGED frame

\* Mutant of MonStreamErr: the read error ends the task.
MonStreamErr_Ends(id) ==
    /\ mon[id].st = "run" /\ mon[id].pc = "read" /\ mon[id].open
    /\ mon' = [mon EXCEPT ![id] = Failed(mon[id])]
    /\ UNCHANGED frame

\* log_stream.next() yields Some(Err(e)): break, and the outer loop opens the
\* stream again.
MonStreamErr(id) ==
    LET m == mon[id] IN
    /\ m.st = "run" /\ m.pc = "read" /\ m.open
    /\ mon' = [mon EXCEPT ![id] =
                  [m EXCEPT !.pos = OpenStream(id, m.since), !.last = "err"]]
    /\ UNCHANGED frame

\* Mutant of MonStreamEnd: monitor_logs returns Ok(()) when the stream ends.
MonStreamEnd_Returns(id) ==
    /\ mon[id].st = "run" /\ mon[id].pc = "read" /\ mon[id].open
    /\ mon[id].pos > Len(logs[id])
    /\ mon' = [mon EXCEPT ![id] = [NoTask EXCEPT !.st = "done"]]
    /\ UNCHANGED frame

\* log_stream.next() yields None (the daemon closed the stream after its last
\* line): the while loop ends, and the outer loop opens the stream again.
MonStreamEnd(id) ==
    LET m == mon[id] IN
    /\ m.st = "run" /\ m.pc = "read" /\ m.open
    /\ m.pos > Len(logs[id])
    /\ mon' = [mon EXCEPT ![id] =
                  [m EXCEPT !.pos = OpenStream(id, m.since), !.last = "end"]]
    /\ UNCHANGED frame

----------------------------------------------------------------------------
\* restart_containers

\* docker.restart_container(&container.id) is sent for the first of `queue`.
Issue(m, queue) ==
    [m EXCEPT !.pc = "call", !.queue = queue, !.issued = Append(m.issued, Head(queue))]

\* get_filtered_containers returns Ok: the first restart is sent, or, with
\* nothing to restart, Ok(()) is returned.
RestartListed(id) ==
    LET m == mon[id] IN
    /\ m.st = "run" /\ m.pc = "list"
    /\ \E list \in Listings(running \cup {Anon}) :
          LET found == GetFilteredContainers(list, m.c.restart)
              queue == [i \in DOMAIN found |-> found[i].id]
              m1 == [m EXCEPT !.snap = running]
          IN  IF queue = <<>>
              THEN mon' = [mon EXCEPT ![id] = Restarted(id, m1)]
              ELSE mon' = [mon EXCEPT ![id] = Issue(m1, queue)]
    /\ UNCHANGED frame

\* Mutant of RestartListFail: the error ends every running task.
RestartListFail_EndsAll(id) ==
    /\ mon[id].st = "run" /\ mon[id].pc = "list"
    /\ mon' = [o \in Ids |-> IF mon[o].st = "run" THEN Failed(mon[o]) ELSE mon[o]]
    /\ UNCHANGED frame

\* get_filtered_containers returns Err.
RestartListFail(id) ==
    LET m == mon[id] IN
    /\ m.st = "run" /\ m.pc = "list"
    /\ mon' = [mon EXCEPT ![id] = Failed(m)]
    /\ UNCHANGED frame

\* Mutant of RestartAcked: Ok(()) is returned after the first restart.
RestartAcked_OnlyFirst(id) ==
    LET m == mon[id] IN
    /\ m.st = "run" /\ m.pc = "call"
    /\ mon' = [mon EXCEPT ![id] = Restarted(id, m)]
    /\ UNCHANGED frame

\* restart_container returns Ok: the next restart is sent, or, after the
\* last one, Ok(()) is returned.
RestartAcked(id) ==
    LET m == mon[id] IN
    /\ m.st = "run" /\ m.pc = "call"
    /\ IF Tail(m.queue) = <<>>
       THEN mon' = [mon EXCEPT ![id] = Restarted(id, m)]
       ELSE mon' = [mon EXCEPT ![id] = Issue(m, Tail(m.queue))]
    /\ UNCHANGED frame

\* Mutant of RestartCallFail: the error is passed over and the loop goes on
\* with the next container.
RestartCallFail_GoesOn(id) ==
    /\ mon[id].st = "run" /\ mon[id].pc = "call"
    /\ IF Tail(mon[id].queue) = <<>>
       THEN mon' = [mon EXCEPT ![id] = Failed(mon[id])]
       ELSE mon' = [mon EXCEPT ![id] = Issue(mon[id], Tail(mon[id].queue))]
    /\ UNCHANGED frame

\* restart_container returns Err.
RestartCallFail(id) ==
    LET m == mon[id] IN
    /\ m.st = "run" /\ m.pc = "call"
    /\ mon' = [mon EXCEPT ![id] = Failed(m)]
    /\ UNCHANGED frame

----------------------------------------------------------------------------

Next ==
    \/ \E id \in Ids : EnvStart(id)
    \/ \E id \in Ids : EnvStop(id)
    \/ \E id \in Ids, line \in Lines : EnvLog(id, line)
    \/ Elapse
    \/ TickFail
    \/ TickOk
    \/ \E id \in Ids : MonStart(id)
    \/ \E id \in Ids : MonLine(id)
    \/ \E id \in Ids : MonStreamErr(id)
    \/ \E id \in Ids : MonStreamEnd(id)
    \/ \E id \in Ids : RestartListed(id)
    \/ \E id \in Ids : RestartListFail(id)
    \/ \E id \in Ids : RestartAcked(id)
    \/ \E id \in Ids : RestartCallFail(id)

\* The container of web stays the same one.
Spec == Init /\ [][Next]_vars

NextReplace ==
    \/ Next
    \/ \E old \in Ids, new \in Ids : EnvReplace(old, new)

\* The container of web is replaced by another one; there is no db.
SpecReplace == InitReplace /\ [][NextReplace]_vars

\* Only the container of web exists, and it is running; it restarts itself.
InitLive ==
    /\ exists = {"c1"}
    /\ running = {"c1"}
    /\ logs = [id \in Ids |-> <<>>]
    /\ written = 0
    /\ clock = 0
    /\ configs = <<ContainerRestartConfig(Web, <<Web>>, Pat, FALSE)>>
    /\ tasks = {}
    /\ containers = <<>>
    /\ wakeAt = 0
    /\ mon = [id \in Ids |-> NoTask]
    /\ lastTick = "none"
    /\ tickBit = 0

\* The container may stop for good, and every line it writes matches.
NextLive ==
    \/ \E id \in Ids : EnvStop(id)
    \/ \E id \in Ids : EnvLog(id, LineOOM)
    \/ Elapse
    \/ TickFail
    \/ TickOk
    \/ \E id \in Ids : MonStart(id)
    \/ \E id \in Ids : MonLine(id)
    \/ \E id \in Ids : MonStreamErr(id)
    \/ \E id \in Ids : MonStreamEnd(id)
    \/ \E id \in Ids : RestartListed(id)
    \/ \E id \in Ids : RestartListFail(id)
    \/ \E id \in Ids : RestartAcked(id)
    \/ \E id \in Ids : RestartCallFail(id)

\* Time passes, and the runtime polls main once its sleep is over.
SpecLive ==
    /\ InitLive
    /\ [][NextLive]_vars
    /\ WF_vars(Elapse)
    /\ WF_vars(TickOk \/ TickFail)

\* web and db are both watched, each restarting itself; their containers are
\* running, and the daemon is reached in second 10.
ConfigChoicesTwo ==
    {<<ContainerRestartConfig(Web, <<Web>>, Pat, s),
       ContainerRestartConfig(Db, <<Db>>, Pat, FALSE)>> : s \in BOOLEAN}

InitTwo ==
    /\ exists = {"c1", "c3"}
    /\ running = {"c1", "c3"}
    /\ logs = [id \in Ids |-> <<>>]
    /\ written = 0
    /\ clock = 10
    /\ configs \in ConfigChoicesTwo
    /\ tasks = {}
    /\ containers = <<>>
    /\ wakeAt = 0
    /\ mon = [id \in Ids |-> NoTask]
    /\ lastTick = "none"
    /\ tickBit = 0

\* The containers keep running, and every line they write matches.
NextTwo ==
    \/ \E id \in Ids : EnvLog(id, LineOOM)
    \/ Elapse
    \/ TickFail
    \/ TickOk
    \/ \E id \in Ids : MonStart(id)
    \/ \E id \in Ids : MonLine(id)
    \/ \E id \in Ids : MonStreamErr(id)
    \/ \E id \in Ids : MonStreamEnd(id)
    \/ \E id \in Ids : RestartListed(id)
    \/ \E id \in Ids : RestartListFail(id)
    \/ \E id \in Ids : RestartAcked(id)
    \/ \E id \in Ids : RestartCallFail(id)

\* Two monitor tasks side by side.
SpecTwo == InitTwo /\ [][NextTwo]_vars

----------------------------------------------------------------------------
\* Vocabulary of the properties

\* The name of a container as `docker ps` shows it.
ShownName(id) == IF id \in {"c1", "c2"} THEN Web ELSE Db

WatchNames == {configs[i].watch : i \in DOMAIN configs}

\* The running containers a list of target names stands for.
RunningTargets(run, targets) ==
    {x \in run : \E i \in DOMAIN targets : targets[i] = ShownName(x)}

Alive(id) == mon[id].st = "run"

\* The task of id is inside a call of restart_containers.
Restarting(id) == Alive(id) /\ mon[id].pc \in {"list", "call"}

TickStep == tickBit' # tickBit
TickOkStep == TickStep /\ lastTick' = "ok"
TickFailStep == TickStep /\ lastTick' = "err"

\* The main loop's sleep is over.
TickReady == clock >= wakeAt

\* The call of restart_containers made by the task of id returns in this step.
ReturnsOk(id) == Restarting(id) /\ mon'[id].st = "run" /\ mon'[id].pc = "read"
ReturnsErr(id) == Restarting(id) /\ mon'[id].st = "err"

\* The stream of the task of id yields a read error in this step.
StreamErrStep(id) == Alive(id) /\ mon'[id] # mon[id] /\ mon'[id].last = "err"

----------------------------------------------------------------------------
\* C1: after a tick whose listing succeeded, the ids that have a task in the
\* task map are exactly the ids resolved on that tick, and these are the
\* running containers with a watched name.
C1_TasksMatchResolved ==
    [][TickOkStep =>
          /\ tasks' = DOMAIN containers'
          /\ tasks' = RunningTargets(running, ContainersNames(configs))]_vars

\* c1 was watched and went away, c2 appeared in its place.
C1_Witness ==
    /\ lastTick = "ok"
    /\ tasks = {"c2"}
    /\ mon["c1"].st = "aborted"

\* C2: with skip_first, a task that has consumed N >= 1 lines, all of them
\* matching, has called restart_containers N - 1 times: not for the first
\* line, and once for each later one.
C2_SkipFirstCounts ==
    \A id \in Ids :
        (Alive(id) /\ mon[id].c.skip_first /\ ~mon[id].sawOther /\ mon[id].nMatch >= 1)
            => mon[id].nInvoke = mon[id].nMatch - 1

\* Two matching lines consumed, the restart for the second has returned Ok.
C2_Witness ==
    \E id \in Ids :
        /\ Alive(id) /\ mon[id].c.skip_first /\ ~mon[id].sawOther
        /\ mon[id].nMatch = 2 /\ mon[id].nInvoke = 1 /\ mon[id].pc = "read"

\* C3: with skip_first, the first matching line a task consumes never leads
\* to a call of restart_containers, whatever lines it consumed before.
C3_FirstMatchNeverRestarts ==
    \A id \in Ids :
        (Alive(id) /\ mon[id].c.skip_first /\ mon[id].nMatch = 1)
            => mon[id].nInvoke = 0

\* C4: without skip_first every matching line a task consumes leads to one
\* call of restart_containers, and that call sends one restart for each
\* target that was running when it listed the containers.
C4_NoSkipEveryMatch ==
    \A id \in Ids :
        (Alive(id) /\ ~mon[id].c.skip_first) =>
            /\ mon[id].nInvoke = mon[id].nMatch
            /\ mon[id].pc = "call" =>
                  Len(mon[id].issued) + Len(mon[id].queue) - 1
                      = Cardinality(RunningTargets(mon[id].snap, mon[id].c.restart))

\* One matching line, one restart_containers call, one restart sent, for c1.
C4_Witness ==
    /\ Alive("c1") /\ ~mon["c1"].c.skip_first
    /\ mon["c1"].nMatch = 1 /\ mon["c1"].nInvoke = 1 /\ ~mon["c1"].sawOther
    /\ mon["c1"].pc = "call" /\ mon["c1"].issued = <<"c1">>
    /\ mon["c1"].queue = <<"c1">>

\* C5: a task that the loop has cancelled is not running any more, so it
\* sends no restart, and it holds no log stream: only tasks of the task map
\* run or hold a stream.
C5_CancelledIsDead ==
    \A id \in Ids :
        /\ (Alive(id) \/ mon[id].open) => id \in tasks
        /\ mon[id].st = "aborted" =>
              (~mon[id].open /\ mon[id].issued = <<>> /\ mon[id].queue = <<>>)

\* The task of c1 is cancelled while its container's log holds a matching line.
C5_Witness ==
    /\ mon["c1"].st = "aborted"
    /\ "c1" \notin tasks
    /\ \E i \in DOMAIN logs["c1"] : StrContains(logs["c1"][i].line, Pat)

\* C6: a task that is inside restart_containers is not cancelled there.
C6_RestartNotAborted ==
    [][\A id \in Ids : Restarting(id) => mon'[id].st # "aborted"]_vars

\* C7: a tick whose listing fails changes neither the task map, nor the
\* resolved containers, nor any task, and the next tick comes 10 seconds later.
C7_FailedTickChangesNothing ==
    [][/\ TickFailStep =>
             /\ tasks' = tasks
             /\ containers' = containers
             /\ mon' = mon
             /\ wakeAt' = clock + 10
       /\ TickStep => TickReady]_vars

\* A tick has failed while the task of c1 was running.
C7_Witness ==
    /\ lastTick = "err"
    /\ tasks = {"c1"}
    /\ Alive("c1")
    /\ clock = 10
    /\ wakeAt = 20

\* C8: when a call of restart_containers returns, Ok or Err, the main loop's
\* sleep is over.
C8_RestartWakesLoop ==
    [][\A id \in Ids : (ReturnsOk(id) \/ ReturnsErr(id)) => TickReady']_vars

\* C9: a call of restart_containers that returns Ok has sent exactly one
\* restart for each container that was running with a name of the target
\* list when it listed the containers, and none for another one; a target
\* name without a running container makes no difference.
C9_RestartsRunningTargets ==
    [][\A id \in Ids :
          ReturnsOk(id) =>
              LET listed == IF mon[id].pc = "list" THEN running ELSE mon[id].snap
                  expected == RunningTargets(listed, mon[id].c.restart)
                  sent == mon[id].issued
              IN  /\ {sent[i] : i \in DOMAIN sent} = expected
                  /\ Len(sent) = Cardinality(expected)]_vars

\* restart([web, db]) with only web running: one restart, for c1, is in
\* flight and nothing is left to send.
C9_Witness ==
    /\ Alive("c1") /\ mon["c1"].pc = "call"
    /\ mon["c1"].c.restart = <<Web, Db>>
    /\ mon["c1"].snap = {"c1"}
    /\ mon["c1"].issued = <<"c1">>
    /\ mon["c1"].queue = <<"c1">>

\* C10: after a successful tick every resolved container has a running
\* monitor task, also when an earlier task of it ended with a restart error.
C10_MonitoringGoesOn ==
    [][TickOkStep => \A id \in DOMAIN containers' : mon'[id].st = "run"]_vars

\* C11: a stream read error, or an error returned by restart_containers, in
\* the task of one container changes no other task, and changes neither the
\* task map nor the resolved containers of the main loop.
C11_ErrorsAreLocal ==
    [][\A id \in Ids :
          (StreamErrStep(id) \/ ReturnsErr(id)) =>
              /\ \A o \in Ids \ {id} : mon'[o] = mon[o]
              /\ tasks' = tasks
              /\ containers' = containers]_vars

\* The task of web has ended with a restart error and the stream of the task
\* of db has had a read error; db's task is running and both are in the maps.
C11_Witness ==
    /\ mon["c1"].st = "err"
    /\ Alive("c3") /\ mon["c3"].last = "err" /\ mon["c3"].nMatch = 1
    /\ tasks = {"c1", "c3"}
    /\ DOMAIN containers = {"c1", "c3"}

\* An error of one of the three kinds has happened: the listing of the last
\* tick failed, a stream has had a read error, or a task has ended with the
\* error of restart_containers.
AnError ==
    \/ lastTick = "err"
    \/ \E id \in Ids : mon[id].last = "err" \/ mon[id].st = "err"

\* C12: after a failed listing, a stream read error or a restart error, the
\* main loop is still running: it does another tick (as long as the next
\* tick is within the seconds that are modelled).
C12_LoopKeepsTicking ==
    \A b \in {0, 1} :
        (AnError /\ tickBit = b /\ clock + SleepSecs <= MaxClock) ~> (tickBit # b)

\* A task that ended with a restart error has been taken out of the task map
\* by a later tick.
C12_Witness ==
    /\ mon["c1"].st = "err"
    /\ "c1" \notin tasks
    /\ lastTick = "ok"

\* C13: when the watched name was resolved to one id by the last successful
\* tick and is resolved to another id by this successful tick, the tick takes
\* the old id out of the task map and leaves its task not running, and puts
\* the new id in with a task that starts from scratch; and a task polled for
\* the first time has seen no occurrence, whatever other tasks have seen.
C13_NewIdFreshTask ==
    [][/\ \A a \in Ids : \A b \in Ids \ {a} :
            (/\ TickOkStep
             /\ a \in DOMAIN containers /\ a \notin DOMAIN containers'
             /\ b \notin DOMAIN containers /\ b \in DOMAIN containers'
             /\ containers[a].name = containers'[b].name) =>
                /\ a \notin tasks' /\ mon'[a].st # "run" /\ ~mon'[a].open
                /\ b \in tasks' /\ mon'[b].st = "run" /\ mon'[b].pc = "start"
                /\ mon'[b].nMatch = 0 /\ ~mon'[b].sawOther /\ mon'[b].first_time
                /\ mon'[b].c = containers'[b]
       /\ \A id \in Ids :
            (Alive(id) /\ mon[id].pc = "start" /\ mon'[id].pc # "start" /\ mon'[id].st = "run") =>
                mon'[id].first_time /\ mon'[id].nMatch = 0]_vars

\* c2 has taken the place of c1, whose task is cancelled, and the task of c2
\* has skipped the one matching line it has consumed.
C13_Witness ==
    /\ mon["c1"].st = "aborted" /\ "c1" \notin tasks
    /\ DOMAIN containers = {"c2"} /\ tasks = {"c2"}
    /\ Alive("c2") /\ mon["c2"].c.skip_first
    /\ mon["c2"].nMatch = 1 /\ mon["c2"].nInvoke = 0 /\ ~mon["c2"].first_time
    /\ ~mon["c2"].sawOther

\* C14: when a call of restart_containers returns Ok, the stream the task
\* opens next starts after every line the task has consumed: no line it has
\* consumed, the matching one included, is yielded again.
C14_NoReplayAfterRestart ==
    [][\A id \in Ids : ReturnsOk(id) => mon'[id].pos >= mon[id].pos]_vars

\* C15: a step in which the stream of a task yields a read error leaves the
\* task running and waiting for a line of a stream opened from its cursor,
\* with the cursor and first_time as they were, and calls restart_containers
\* for nothing.
C15_StreamErrorReopens ==
    [][\A id \in Ids :
          MonStreamErr(id) =>
              /\ mon'[id].st = "run" /\ mon'[id].pc = "read" /\ mon'[id].open
              /\ mon'[id].since = mon[id].since
              /\ mon'[id].first_time = mon[id].first_time
              /\ mon'[id].pos = OpenStream(id, mon[id].since)
              /\ mon'[id].nInvoke = mon[id].nInvoke
              /\ mon'[id].queue = <<>> /\ mon'[id].issued = <<>>]_vars

\* The task of c1 has skipped a matching line, and then its stream has had a
\* read error: it is back at the start of the log, first_time still false.
C15_Witness ==
    /\ Alive("c1") /\ mon["c1"].last = "err" /\ mon["c1"].pc = "read"
    /\ mon["c1"].c.skip_first /\ ~mon["c1"].first_time
    /\ mon["c1"].nMatch = 1 /\ mon["c1"].nInvoke = 0
    /\ mon["c1"].pos = 1 /\ Len(logs["c1"]) = 1

\* C16: a call of restart_containers has at most one restart in flight: it
\* sends the first after its listing, and each later one in the step in which
\* the one before is acknowledged, in the order of the listing. When its
\* listing fails or a restart fails, it returns the error in that step, with
\* no restart in flight and none left to send.
C16_OneAtATimeStopAtError ==
    [][\A id \in Ids :
          /\ (Alive(id) /\ mon'[id].st = "run" /\ mon'[id].issued # <<>>
                 /\ mon'[id].issued # mon[id].issued) =>
                 /\ mon'[id].pc = "call"
                 /\ mon'[id].issued = Append(mon[id].issued, Head(mon'[id].queue))
                 /\ \/ mon[id].pc = "list" /\ mon[id].issued = <<>>
                    \/ /\ mon[id].pc = "call"
                       /\ mon[id].issued[Len(mon[id].issued)] = Head(mon[id].queue)
                       /\ mon'[id].queue = Tail(mon[id].queue)
          /\ (RestartListFail(id) \/ RestartCallFail(id)) =>
                 /\ mon'[id].st = "err"
                 /\ mon'[id].pc # "call"
                 /\ mon'[id].queue = <<>>]_vars

\* restart([web, db]) with both running: the restart of the first has been
\* acknowledged and the restart of the second is in flight.
C16_Witness ==
    /\ Alive("c1") /\ mon["c1"].pc = "call"
    /\ Len(mon["c1"].issued) = 2
    /\ mon["c1"].queue = <<mon["c1"].issued[2]>>
    /\ {mon["c1"].issued[1], mon["c1"].issued[2]} = {"c1", "c3"}

\* C17: a task consumes the lines of its stream one after the other, and
\* only while it is not inside restart_containers; of the matching lines it
\* has consumed at most one was passed over (none without skip_first), and
\* each of the others made it call restart_containers before anything else.
C17_AtMostOneSuppressed ==
    [][\A id \in Ids :
          /\ MonLine(id) =>
                /\ mon[id].pc = "read"
                /\ mon'[id].pos = mon[id].pos + 1
                /\ mon'[id].nMatch # mon[id].nMatch =>
                      \/ /\ mon'[id].pc = "list"
                         /\ mon'[id].nInvoke = mon[id].nInvoke + 1
                      \/ /\ mon[id].c.skip_first /\ mon[id].nMatch = mon[id].nInvoke
                         /\ mon'[id].pc = "read"
                         /\ mon'[id].nInvoke = mon[id].nInvoke
          /\ (Restarting(id) /\ mon'[id].st = "run") =>
                mon'[id].nMatch = mon[id].nMatch /\ mon'[id].sawOther = mon[id].sawOther
          /\ Alive(id)' =>
                /\ mon'[id].nMatch - mon'[id].nInvoke \in {0, 1}
                /\ ~mon'[id].c.skip_first => mon'[id].nMatch = mon'[id].nInvoke]_vars

\* With skip_first the task of c1 has consumed two matching lines, the first
\* and second of the log: it passed over one and is inside the call of
\* restart_containers for the other.
C17_Witness ==
    /\ Restarting("c1") /\ mon["c1"].c.skip_first
    /\ mon["c1"].nMatch = 2 /\ mon["c1"].nInvoke = 1
    /\ mon["c1"].pos = 3 /\ ~mon["c1"].sawOther

\* C18: every id of the task map is a key of the resolved containers, which
\* are those of the last tick whose listing succeeded; so is the id of every
\* running task. The cancel pass, which goes through the keys of the
\* resolved containers, therefore reaches every task there is.
C18_TasksAreResolved ==
    /\ tasks \subseteq DOMAIN containers
    /\ \A id \in Ids : Alive(id) => id \in DOMAIN containers

\* c1 is gone and c2 runs in its place, but the listing of the last tick
\* failed: the task of c1 is still there, and c1 is still a resolved id.
C18_Witness ==
    /\ lastTick = "err"
    /\ "c1" \notin exists /\ "c2" \in running
    /\ tasks = {"c1"} /\ Alive("c1")
    /\ DOMAIN containers = {"c1"}

\* C19: a running task stops running only in a step in which its call of
\* restart_containers returns Err, or in a tick that cancels it: it never
\* returns Ok. A step in which its stream ends leaves it running and waiting
\* for a line of a stream opened from its cursor, with the cursor and
\* first_time as they were.
C19_EndsOnlyByRestartError ==
    [][\A id \in Ids :
          /\ (Alive(id) /\ mon'[id].st # "run") =>
                \/ ReturnsErr(id)
                \/ TickOkStep /\ mon'[id].st = "aborted" /\ id \notin tasks'
          /\ MonStreamEnd(id) =>
                /\ mon'[id].st = "run" /\ mon'[id].pc = "read" /\ mon'[id].open
                /\ mon'[id].since = mon[id].since
                /\ mon'[id].first_time = mon[id].first_time
                /\ mon'[id].pos = OpenStream(id, mon[id].since)]_vars

\* The container of c1 has stopped and the stream of its task has ended after
\* the one line of the log: the task is running, on a stream opened again
\* from the start of the log.
C19_Witness ==
    /\ "c1" \notin running
    /\ Alive("c1") /\ mon["c1"].last = "end" /\ mon["c1"].pc = "read"
    /\ ~mon["c1"].first_time
    /\ mon["c1"].pos = 1 /\ Len(logs["c1"]) = 1

====
